---- MODULE Spec2Model ----
(***************************************************************************)
(* State-machine model of the MIR interpreter in src/src/interpreter.rs.   *)
(* The host recursion of Interpreter::call is made explicit as the         *)
(* sequence `host` of activations; every other variable is a field of      *)
(* struct Interpreter or a local of call.  Stack offsets are 0-based as in *)
(* the source (slot p of the Vec is value_stack[p + 1] here); basic blocks *)
(* are numbered from 1 (START_BLOCK).                                      *)
(***************************************************************************)
EXTENDS Integers, Sequences, FiniteSets, TLC

\* ------------------------------------------------------------------------
\* Bounds of the model
\* ------------------------------------------------------------------------

\* width of Value::Int in the model (i64 in the source, scaled down)
IntBits == 8

\* longest argument vector handed to a top-level call
MaxArgs == 2

\* host recursion depth of call beyond which the host stack is exhausted
MaxDepth == 6

\* ------------------------------------------------------------------------
\* Integers of IntBits bits
\* ------------------------------------------------------------------------

RECURSIVE Pow2(_)
Pow2(n) == IF n <= 0 THEN 1 ELSE 2 * Pow2(n - 1)

Modulus == Pow2(IntBits)
MinInt == 0 - Pow2(IntBits - 1)
MaxInt == Pow2(IntBits - 1) - 1
InRange(x) == MinInt <= x /\ x <= MaxInt

\* mutant: results are not reduced to IntBits bits
Wrap_unbounded(x) == x

\* the two's-complement representative of x
Wrap(x) == ((x - MinInt) % Modulus) + MinInt

Abs(x) == IF x < 0 THEN 0 - x ELSE x

\* Rust's `/` and `%` on signed integers truncate towards zero
TruncDiv(l, r) ==
    IF (l < 0) = (r < 0) THEN Abs(l) \div Abs(r) ELSE 0 - (Abs(l) \div Abs(r))
TruncRem(l, r) == l - r * TruncDiv(l, r)

\* bit i of the two's-complement pattern of x
Bit(x, i) == ((x % Modulus) \div Pow2(i)) % 2

XorBit(a, b) == (a + b) % 2
AndBit(a, b) == a * b
OrBit(a, b) == a + b - a * b

BitFn(op, a, b) ==
    CASE op = "BitXor" -> XorBit(a, b)
      [] op = "BitAnd" -> AndBit(a, b)
      [] OTHER -> OrBit(a, b)

RECURSIVE BitwiseFrom(_, _, _, _)
BitwiseFrom(op, l, r, i) ==
    IF i >= IntBits THEN 0
    ELSE BitFn(op, Bit(l, i), Bit(r, i)) * Pow2(i) + BitwiseFrom(op, l, r, i + 1)

\* bitwise operator on two's-complement patterns, result read back as signed
Bitwise(op, l, r) == Wrap(BitwiseFrom(op, l, r, 0))

\* ------------------------------------------------------------------------
\* enum Value
\* ------------------------------------------------------------------------

Uninit == [tag |-> "Uninit", v |-> 0]
Bool(b) == [tag |-> "Bool", v |-> IF b THEN 1 ELSE 0]
IntVal(n) == [tag |-> "Int", v |-> n]
Func(d) == [tag |-> "Func", v |-> d]

\* results of the evaluation functions: a value, or the panic that ended it
Ok(val) == [ok |-> TRUE, val |-> val, err |-> "none"]
Panic(e) == [ok |-> FALSE, val |-> Uninit, err |-> e]

\* ------------------------------------------------------------------------
\* The MIR handed to the interpreter (rustc_mir::repr), as data
\* ------------------------------------------------------------------------

Lv(k, i) == [k |-> k, i |-> i]
ReturnPointer == Lv("ReturnPointer", 0)
Arg(i) == Lv("Arg", i)
Var(i) == Lv("Var", i)
Temp(i) == Lv("Temp", i)
Static == Lv("Static", 0)

CInt(n) == [k |-> "Int", v |-> n]
CBool(b) == [k |-> "Bool", v |-> IF b THEN 1 ELSE 0]
CUint(n) == [k |-> "Uint", v |-> n]
CFloat == [k |-> "Float", v |-> 0]

Consume(lv) == [k |-> "Consume", lv |-> lv, c |-> CInt(0), d |-> 0]
Constant(c) == [k |-> "Value", lv |-> ReturnPointer, c |-> c, d |-> 0]
Item(d) == [k |-> "Item", lv |-> ReturnPointer, c |-> CInt(0), d |-> d]

Use(o) == [k |-> "Use", op |-> "none", l |-> o, r |-> o]
BinaryOp(op, l, r) == [k |-> "BinaryOp", op |-> op, l |-> l, r |-> r]
UnaryOp(op, o) == [k |-> "UnaryOp", op |-> op, l |-> o, r |-> o]
Aggregate(o) == [k |-> "Aggregate", op |-> "none", l |-> o, r |-> o]

Assign(lv, rv) == [k |-> "Assign", lv |-> lv, rv |-> rv]
Drop(lv) == [k |-> "Drop", lv |-> lv, rv |-> Use(Consume(lv))]

Term(k, lv, o, args, values, targets) ==
    [k |-> k, lv |-> lv, o |-> o, args |-> args, values |-> values, targets |-> targets]
Return == Term("Return", ReturnPointer, Consume(ReturnPointer), <<>>, <<>>, <<>>)
Goto(t) == Term("Goto", ReturnPointer, Consume(ReturnPointer), <<>>, <<>>, <<t>>)
Call(dest, func, args, next) == Term("Call", dest, func, args, <<>>, <<next>>)
If(cond, t, f) == Term("If", ReturnPointer, cond, <<>>, <<>>, <<t, f>>)
SwitchInt(discr, values, targets) ==
    Term("SwitchInt", discr, Consume(discr), <<>>, values, targets)
Diverge == Term("Diverge", ReturnPointer, Consume(ReturnPointer), <<>>, <<>>, <<>>)

Block(stmts, term) == [statements |-> stmts, terminator |-> term]
Mir(na, nv, nt, blocks) ==
    [num_args |-> na, num_vars |-> nv, num_temps |-> nt, blocks |-> blocks]

BinOps == <<"Add", "Sub", "Mul", "Div", "Rem", "BitXor", "BitAnd", "BitOr",
            "Shl", "Shr", "Eq", "Lt", "Le", "Ne", "Ge", "Gt">>
Comparisons == {"Eq", "Lt", "Le", "Ne", "Ge", "Gt"}
UnOps == <<"Not", "Neg">>

\* ------------------------------------------------------------------------
\* The bodies of the MirMap the interpreter is run on
\* ------------------------------------------------------------------------

NumFixed == Len(<<"fact", "switch", "switch_uint", "branch", "outer", "inner",
                  "call_value", "scenario_a", "float_body", "goto_loop",
                  "rec_forever", "call_extern", "unsupported">>)

\* def ids: the keys of mir_map; `extern` has no local MIR
DefIds ==
    [fact |-> 1, switch |-> 2, switch_uint |-> 3, branch |-> 4, outer |-> 5,
     inner |-> 6, call_value |-> 7, scenario_a |-> 8, float_body |-> 9,
     goto_loop |-> 10, rec_forever |-> 11, call_extern |-> 12,
     unsupported |-> 13, extern |-> 0]

RetConst(n) == Assign(ReturnPointer, Use(Constant(CInt(n))))

\* fn fact(n) = if n <= 1 { 1 } else { n * fact(n - 1) }
FactBody ==
    Mir(1, 0, 3, <<
        Block(<<Assign(Temp(0), BinaryOp("Le", Consume(Arg(0)), Constant(CInt(1))))>>,
              If(Consume(Temp(0)), 2, 3)),
        Block(<<RetConst(1)>>, Goto(5)),
        Block(<<Assign(Temp(1), BinaryOp("Sub", Consume(Arg(0)), Constant(CInt(1))))>>,
              Call(Temp(2), Item(DefIds.fact), <<Consume(Temp(1))>>, 4)),
        Block(<<Assign(ReturnPointer, BinaryOp("Mul", Consume(Arg(0)), Consume(Temp(2))))>>,
              Goto(5)),
        Block(<<>>, Return) >>)

\* match x { 0 => 10, 1 => 11, 2 => 12, 1 => 13 }
SwitchBody ==
    Mir(1, 0, 0, <<
        Block(<<>>, SwitchInt(Arg(0), <<CInt(0), CInt(1), CInt(2), CInt(1)>>, <<2, 3, 4, 5>>)),
        Block(<<RetConst(10)>>, Return),
        Block(<<RetConst(11)>>, Return),
        Block(<<RetConst(12)>>, Return),
        Block(<<RetConst(13)>>, Return) >>)

\* a match on an unsigned scrutinee: the candidates are ConstVal::Uint
SwitchUintBody ==
    Mir(1, 0, 0, <<
        Block(<<>>, SwitchInt(Arg(0), <<CUint(0), CUint(1)>>, <<2, 3>>)),
        Block(<<RetConst(10)>>, Return),
        Block(<<RetConst(11)>>, Return) >>)

\* if x { 1 } else { 0 }
BranchBody ==
    Mir(1, 0, 0, <<
        Block(<<>>, If(Consume(Arg(0)), 2, 3)),
        Block(<<RetConst(1)>>, Return),
        Block(<<RetConst(0)>>, Return) >>)

\* fn outer(x) { let v = x; inner(v, 5) }
OuterBody ==
    Mir(1, 1, 2, <<
        Block(<<Assign(Var(0), Use(Consume(Arg(0)))),
                Assign(Temp(0), Use(Constant(CInt(5)))),
                Drop(Var(0))>>,
              Call(Temp(1), Item(DefIds.inner), <<Consume(Var(0)), Consume(Temp(0))>>, 2)),
        Block(<<Assign(ReturnPointer, Use(Consume(Temp(1))))>>, Return) >>)

\* the callee of outer: returns its first argument, then overwrites every
\* kind of slot of its own frame
InnerBody ==
    Mir(2, 1, 1, <<
        Block(<<Assign(ReturnPointer, Use(Consume(Arg(0)))),
                Assign(Temp(0), Use(Consume(Arg(1)))),
                Assign(Var(0), Use(Constant(CBool(TRUE)))),
                Assign(Arg(0), Use(Consume(Temp(0)))),
                Assign(Arg(1), Use(Constant(CInt(2))))>>,
              Return) >>)

\* calls the value of its argument with one argument
CallValueBody ==
    Mir(1, 0, 1, <<
        Block(<<Assign(Temp(0), Use(Constant(CInt(2))))>>,
              Call(ReturnPointer, Consume(Arg(0)), <<Consume(Temp(0))>>, 2)),
        Block(<<>>, Return) >>)

\* 2 + 3 * 4
ScenarioABody ==
    Mir(0, 0, 1, <<
        Block(<<Assign(Temp(0), BinaryOp("Mul", Constant(CInt(3)), Constant(CInt(4)))),
                Assign(ReturnPointer, BinaryOp("Add", Constant(CInt(2)), Consume(Temp(0))))>>,
              Return) >>)

\* a body whose constant is a floating-point literal
FloatBody ==
    Mir(0, 0, 0, << Block(<<Assign(ReturnPointer, Use(Constant(CFloat)))>>, Return) >>)

\* loop {}
GotoLoopBody ==
    Mir(0, 0, 0, << Block(<<>>, Goto(2)), Block(<<>>, Goto(1)) >>)

\* fn rec_forever() { rec_forever() }
RecForeverBody ==
    Mir(0, 0, 0, <<
        Block(<<>>, Call(ReturnPointer, Item(DefIds.rec_forever), <<>>, 2)),
        Block(<<>>, Return) >>)

\* a call of an item of another crate
CallExternBody ==
    Mir(0, 0, 0, <<
        Block(<<>>, Call(ReturnPointer, Item(DefIds.extern), <<>>, 2)),
        Block(<<>>, Return) >>)

\* constructs the interpreter does not implement, selected by the argument
UnsupportedBody ==
    Mir(1, 0, 1, <<
        Block(<<>>, SwitchInt(Arg(0), <<CInt(0), CInt(1), CInt(2), CInt(5), CInt(-1)>>,
                              <<2, 3, 4, 5, 6>>)),
        Block(<<Assign(Static, Use(Constant(CInt(1))))>>, Return),
        Block(<<Assign(ReturnPointer, Aggregate(Constant(CInt(1))))>>, Return),
        Block(<<RetConst(1)>>, Diverge),
        Block(<<>>, Call(ReturnPointer, Item(DefIds.inner),
                         <<Constant(CInt(1)), Constant(CFloat)>>, 2)),
        Block(<<Assign(Temp(0), Use(Constant(CInt(3))))>>,
              Call(ReturnPointer, Item(DefIds.float_body), <<>>, 2)) >>)

\* fn(a, b) = a op b
BinBody(op) ==
    Mir(2, 0, 0, <<
        Block(<<Assign(ReturnPointer, BinaryOp(op, Consume(Arg(0)), Consume(Arg(1))))>>,
              Return) >>)

\* fn(a) = op a
UnBody(op) ==
    Mir(1, 0, 0, <<
        Block(<<Assign(ReturnPointer, UnaryOp(op, Consume(Arg(0))))>>, Return) >>)

mir_map ==
    <<FactBody, SwitchBody, SwitchUintBody, BranchBody, OuterBody, InnerBody,
      CallValueBody, ScenarioABody, FloatBody, GotoLoopBody, RecForeverBody,
      CallExternBody, UnsupportedBody>>
    \o [i \in 1..Len(BinOps) |-> BinBody(BinOps[i])]
    \o [i \in 1..Len(UnOps) |-> UnBody(UnOps[i])]

BinId(op) == NumFixed + (CHOOSE i \in 1..Len(BinOps) : BinOps[i] = op)
UnId(op) == NumFixed + Len(BinOps) + (CHOOSE i \in 1..Len(UnOps) : UnOps[i] = op)

START_BLOCK == 1

\* the argument values a top-level call is given
ArgValues ==
    {Uninit, Bool(TRUE), Bool(FALSE),
     IntVal(MinInt), IntVal(-1), IntVal(0), IntVal(1), IntVal(2), IntVal(5), IntVal(MaxInt),
     Func(DefIds.fact), Func(DefIds.inner)}

RECURSIVE SeqsUpTo(_, _)
SeqsUpTo(S, n) ==
    IF n = 0 THEN {<<>>}
    ELSE LET shorter == SeqsUpTo(S, n - 1)
         IN  shorter \cup {Append(s, x) : s \in {t \in shorter : Len(t) = n - 1}, x \in S}

ArgVectors == SeqsUpTo(ArgValues, MaxArgs)

\* ------------------------------------------------------------------------
\* struct Frame
\* ------------------------------------------------------------------------

Frame(offset, mir) ==
    [offset |-> offset, num_args |-> mir.num_args,
     num_vars |-> mir.num_vars, num_temps |-> mir.num_temps]

\* mutant: the return slot is not counted
size_without_return_slot(frame) == frame.num_args + frame.num_vars + frame.num_temps

size(frame) == 1 + frame.num_args + frame.num_vars + frame.num_temps
\* mutant: the return slot is taken to be the slot after the frame's base
return_val_offset_plus_one(frame) == frame.offset + 1

return_val_offset(frame) == frame.offset
arg_offset(frame, i) == frame.offset + 1 + i
\* mutant: the variables are taken to start right after the return slot
var_offset_without_args(frame, i) == frame.offset + 1 + i

var_offset(frame, i) == frame.offset + 1 + frame.num_args + i
temp_offset(frame, i) == frame.offset + 1 + frame.num_args + frame.num_vars + i

Last(s) == s[Len(s)]
Front(s) == SubSeq(s, 1, Len(s) - 1)
Min(S) == CHOOSE x \in S : \A y \in S : x <= y

\* ------------------------------------------------------------------------
\* Evaluation functions of impl Interpreter (vs: value_stack, cs: call_stack)
\* ------------------------------------------------------------------------

\* a Pointer::Stack(p), or the panic that ended the resolution
OkPtr(p) == [ok |-> TRUE, ptr |-> p, err |-> "none"]
PanicPtr(e) == [ok |-> FALSE, ptr |-> 0, err |-> e]

\* mutant: locations are resolved against the outermost frame
eval_lvalue_outermost(cs, lvalue) ==
    IF Len(cs) = 0 THEN PanicPtr("missing_call_frame")
    ELSE LET frame == cs[1]
         IN  CASE lvalue.k = "ReturnPointer" -> OkPtr(return_val_offset(frame))
               [] lvalue.k = "Arg" -> OkPtr(arg_offset(frame, lvalue.i))
               [] lvalue.k = "Var" -> OkPtr(var_offset(frame, lvalue.i))
               [] lvalue.k = "Temp" -> OkPtr(temp_offset(frame, lvalue.i))
               [] OTHER -> PanicPtr("unimplemented")

eval_lvalue(cs, lvalue) ==
    IF Len(cs) = 0 THEN PanicPtr("missing_call_frame")
    ELSE LET frame == Last(cs)
         IN  CASE lvalue.k = "ReturnPointer" -> OkPtr(return_val_offset(frame))
               [] lvalue.k = "Arg" -> OkPtr(arg_offset(frame, lvalue.i))
               [] lvalue.k = "Var" -> OkPtr(var_offset(frame, lvalue.i))
               [] lvalue.k = "Temp" -> OkPtr(temp_offset(frame, lvalue.i))
               [] OTHER -> PanicPtr("unimplemented")

read_pointer(vs, p) ==
    IF p < Len(vs) THEN Ok(vs[p + 1]) ELSE Panic("index_out_of_bounds")

\* mutant: a slot holding a value of another kind is not overwritten
write_pointer_same_kind(vs, p, val) ==
    IF p < Len(vs)
    THEN [ok |-> TRUE,
          vs |-> IF vs[p + 1].tag \in {"Uninit", val.tag}
                 THEN [vs EXCEPT ![p + 1] = val]
                 ELSE vs,
          err |-> "none"]
    ELSE [ok |-> FALSE, vs |-> vs, err |-> "index_out_of_bounds"]

\* the value stack after the store, or the panic of the indexing
write_pointer(vs, p, val) ==
    IF p < Len(vs)
    THEN [ok |-> TRUE, vs |-> [vs EXCEPT ![p + 1] = val], err |-> "none"]
    ELSE [ok |-> FALSE, vs |-> vs, err |-> "index_out_of_bounds"]

read_lvalue(vs, cs, lvalue) ==
    LET p == eval_lvalue(cs, lvalue)
    IN  IF p.ok THEN read_pointer(vs, p.ptr) ELSE Panic(p.err)

\* mutant: a constant of an unsupported kind evaluates to Int(0)
eval_constant_lenient(const_val) ==
    CASE const_val.k = "Int" -> Ok(IntVal(const_val.v))
      [] const_val.k = "Bool" -> Ok([tag |-> "Bool", v |-> const_val.v])
      [] OTHER -> Ok(IntVal(0))

eval_constant(const_val) ==
    CASE const_val.k = "Int" -> Ok(IntVal(const_val.v))
      [] const_val.k = "Bool" -> Ok([tag |-> "Bool", v |-> const_val.v])
      [] OTHER -> Panic("unimplemented")

eval_operand(vs, cs, op) ==
    CASE op.k = "Consume" -> read_lvalue(vs, cs, op.lv)
      [] op.k = "Value" -> eval_constant(op.c)
      [] OTHER -> Ok(Func(op.d))

\* mutant: division and remainder by zero yield Int(0)
DivOrRem_total(bin_op, l, r) ==
    IF r = 0 THEN Ok(IntVal(0))
    ELSE IF l = MinInt /\ r = -1 THEN Panic("arithmetic_overflow")
    ELSE Ok(IntVal(IF bin_op = "Div" THEN TruncDiv(l, r) ELSE TruncRem(l, r)))

\* `l / r` and `l % r` on two i64: a zero divisor and MIN / -1 panic in
\* every build
DivOrRem(bin_op, l, r) ==
    IF r = 0 THEN Panic("division_by_zero")
    ELSE IF l = MinInt /\ r = -1 THEN Panic("arithmetic_overflow")
    ELSE Ok(IntVal(IF bin_op = "Div" THEN TruncDiv(l, r) ELSE TruncRem(l, r)))

\* `l op r` on two i64; checks: the build has overflow checks (debug
\* assertions) on, so that an overflowing +, -, * or an out-of-range shift
\* amount panics instead of wrapping (masking the amount)
BinaryInt(bin_op, l, r, checks) ==
    CASE bin_op = "Add" ->
            IF checks /\ ~InRange(l + r) THEN Panic("arithmetic_overflow")
            ELSE Ok(IntVal(Wrap(l + r)))
      [] bin_op = "Sub" ->
            IF checks /\ ~InRange(l - r) THEN Panic("arithmetic_overflow")
            ELSE Ok(IntVal(Wrap(l - r)))
      [] bin_op = "Mul" ->
            IF checks /\ ~InRange(l * r) THEN Panic("arithmetic_overflow")
            ELSE Ok(IntVal(Wrap(l * r)))
      [] bin_op \in {"Div", "Rem"} -> DivOrRem(bin_op, l, r)
      [] bin_op \in {"BitXor", "BitAnd", "BitOr"} -> Ok(IntVal(Bitwise(bin_op, l, r)))
      [] bin_op = "Shl" ->
            IF checks /\ ~(0 <= r /\ r < IntBits) THEN Panic("arithmetic_overflow")
            ELSE Ok(IntVal(Wrap(l * Pow2(r % IntBits))))
      [] bin_op = "Shr" ->
            IF checks /\ ~(0 <= r /\ r < IntBits) THEN Panic("arithmetic_overflow")
            ELSE Ok(IntVal(l \div Pow2(r % IntBits)))
      [] bin_op = "Eq" -> Ok(Bool(l = r))
      [] bin_op = "Lt" -> Ok(Bool(l < r))
      [] bin_op = "Le" -> Ok(Bool(l <= r))
      [] bin_op = "Ne" -> Ok(Bool(l # r))
      [] bin_op = "Ge" -> Ok(Bool(l >= r))
      [] OTHER -> Ok(Bool(l > r))

UnaryInt(un_op, n, checks) ==
    IF un_op = "Not" THEN Ok(IntVal(0 - n - 1))
    ELSE IF checks /\ n = MinInt THEN Panic("arithmetic_overflow")
    ELSE Ok(IntVal(Wrap(0 - n)))

eval_rvalue(vs, cs, rvalue, checks) ==
    CASE rvalue.k = "Use" -> eval_operand(vs, cs, rvalue.l)
      [] rvalue.k = "BinaryOp" ->
            LET left == eval_operand(vs, cs, rvalue.l)
                right == eval_operand(vs, cs, rvalue.r)
            IN  IF ~left.ok THEN left
                ELSE IF ~right.ok THEN right
                ELSE IF left.val.tag = "Int" /\ right.val.tag = "Int"
                THEN BinaryInt(rvalue.op, left.val.v, right.val.v, checks)
                ELSE Panic("unimplemented")
      [] rvalue.k = "UnaryOp" ->
            LET operand == eval_operand(vs, cs, rvalue.l)
            IN  IF ~operand.ok THEN operand
                ELSE IF operand.val.tag = "Int"
                THEN UnaryInt(rvalue.op, operand.val.v, checks)
                ELSE Panic("unimplemented")
      [] OTHER -> Panic("unimplemented")

\* mutant: the argument values are collected in reverse order
eval_args_reversed(vs, cs, args) ==
    LET results == [i \in 1..Len(args) |-> eval_operand(vs, cs, args[i])]
        failed == {i \in 1..Len(args) : ~results[i].ok}
    IN  IF failed = {}
        THEN [ok |-> TRUE,
              vals |-> [i \in 1..Len(args) |-> results[Len(args) + 1 - i].val],
              err |-> "none"]
        ELSE [ok |-> FALSE, vals |-> <<>>, err |-> results[Min(failed)].err]

\* args.iter().map(|arg| self.eval_operand(arg)).collect(): the values in
\* order, or the panic of the first operand that has none
eval_args(vs, cs, args) ==
    LET results == [i \in 1..Len(args) |-> eval_operand(vs, cs, args[i])]
        failed == {i \in 1..Len(args) : ~results[i].ok}
    IN  IF failed = {}
        THEN [ok |-> TRUE, vals |-> [i \in 1..Len(args) |-> results[i].val], err |-> "none"]
        ELSE [ok |-> FALSE, vals |-> <<>>, err |-> results[Min(failed)].err]

\* mutant: the last matching candidate wins
position_last(values, discr_val, i) ==
    LET constants == [k \in 1..Len(values) |-> eval_constant(values[k])]
        failed == {k \in i..Len(values) : ~constants[k].ok}
        matching == {k \in i..Len(values) : constants[k].ok /\ constants[k].val = discr_val}
    IN  IF failed # {} THEN [ok |-> FALSE, index |-> 0, err |-> "unimplemented"]
        ELSE IF matching = {} THEN [ok |-> TRUE, index |-> 0, err |-> "none"]
        ELSE [ok |-> TRUE, index |-> CHOOSE k \in matching : \A j \in matching : j <= k,
              err |-> "none"]

\* mutant: the last target serves as a default arm when nothing matches
position_default(values, discr_val, i) ==
    LET constants == [k \in 1..Len(values) |-> eval_constant(values[k])]
        failed == {k \in i..Len(values) : ~constants[k].ok}
        matching == {k \in i..Len(values) : constants[k].ok /\ constants[k].val = discr_val}
    IN  IF failed # {} /\ (matching = {} \/ Min(failed) < Min(matching))
        THEN [ok |-> FALSE, index |-> 0, err |-> "unimplemented"]
        ELSE IF matching = {} THEN [ok |-> TRUE, index |-> Len(values), err |-> "none"]
        ELSE [ok |-> TRUE, index |-> Min(matching), err |-> "none"]

\* values.iter().position(|v| discr_val == self.eval_constant(v)): the scan
\* from candidate i on; 0 when it ends without a match
RECURSIVE position(_, _, _)
position(values, discr_val, i) ==
    IF i > Len(values) THEN [ok |-> TRUE, index |-> 0, err |-> "none"]
    ELSE LET c == eval_constant(values[i])
         IN  IF ~c.ok THEN [ok |-> FALSE, index |-> 0, err |-> c.err]
             ELSE IF discr_val = c.val THEN [ok |-> TRUE, index |-> i, err |-> "none"]
             ELSE position(values, discr_val, i + 1)

\* mutant: argument i is copied to the slot at offset + i, the first one
\* into the return slot
push_stack_frame_shifted(vs, cs, mir, args) ==
    LET frame == Frame(Len(vs), mir)
        extended == vs \o [i \in 1..size(frame) |-> Uninit]
        fit == IF Len(args) <= size(frame) THEN Len(args) ELSE size(frame)
    IN  [ok |-> Len(args) <= size(frame),
         cs |-> Append(cs, frame),
         vs |-> [j \in 1..Len(extended) |->
                    IF j > frame.offset /\ j - frame.offset <= fit
                    THEN args[j - frame.offset]
                    ELSE extended[j]]]

\* push_stack_frame: the stacks after it; ok is FALSE when the copy of the
\* arguments indexed past the end of the value stack
push_stack_frame(vs, cs, mir, args) ==
    LET frame == Frame(Len(vs), mir)
        extended == vs \o [i \in 1..size(frame) |-> Uninit]
        fit == IF Len(args) < size(frame) THEN Len(args) ELSE size(frame) - 1
    IN  [ok |-> Len(args) < size(frame),
         cs |-> Append(cs, frame),
         vs |-> [j \in 1..Len(extended) |->
                    IF j > frame.offset + 1 /\ j - (frame.offset + 1) <= fit
                    THEN args[j - (frame.offset + 1)]
                    ELSE extended[j]]]

\* mutant: the oldest frame is the one removed
pop_stack_frame_fifo(vs, cs) ==
    IF Len(cs) = 0 THEN [ok |-> FALSE, cs |-> cs, vs |-> vs]
    ELSE LET frame == Last(cs)
         IN  [ok |-> TRUE, cs |-> Tail(cs), vs |-> SubSeq(vs, 1, frame.offset)]

\* mutant: the truncation leaves the popped frame's first slot behind
pop_stack_frame_leaky(vs, cs) ==
    IF Len(cs) = 0 THEN [ok |-> FALSE, cs |-> cs, vs |-> vs]
    ELSE LET frame == Last(cs)
         IN  [ok |-> TRUE, cs |-> Front(cs), vs |-> SubSeq(vs, 1, frame.offset + 1)]

\* mutant: the caller's frame is removed along with the callee's
pop_stack_frame_twice(vs, cs) ==
    IF Len(cs) = 0 THEN [ok |-> FALSE, cs |-> cs, vs |-> vs]
    ELSE LET frame == Last(cs)
         IN  [ok |-> TRUE,
              cs |-> IF Len(cs) >= 2 THEN Front(Front(cs)) ELSE Front(cs),
              vs |-> SubSeq(vs, 1, frame.offset)]

\* pop_stack_frame: the stacks after it; ok is FALSE when there was no frame
\* to pop
pop_stack_frame(vs, cs) ==
    IF Len(cs) = 0 THEN [ok |-> FALSE, cs |-> cs, vs |-> vs]
    ELSE LET frame == Last(cs)
         IN  [ok |-> TRUE, cs |-> Front(cs), vs |-> SubSeq(vs, 1, frame.offset)]

\* ------------------------------------------------------------------------
\* State
\* ------------------------------------------------------------------------

VARIABLES
    value_stack,     \* Interpreter::value_stack
    call_stack,      \* Interpreter::call_stack
    host,            \* the activations of call on the host stack, innermost last
    ret_val,         \* the value the last completed call returned
    status,          \* "idle", "running", "returned" or "panicked"
    err,             \* the panic that ended the process, "none" before
    overflow_checks, \* the build panics on arithmetic overflow
    hist,            \* per activation: observations made when it started / called
    runs             \* the calls this interpreter has completed: body, arguments, result

vars == <<value_stack, call_stack, host, ret_val, status, err, overflow_checks, hist, runs>>

\* one activation of call(mir, args): the body's def id, the argument slice,
\* the block and the next statement of it (past the last: the terminator),
\* and, while a Call terminator of it is in progress, the destination ptr
Activation(d, args) ==
    [mir |-> d, args |-> args, block |-> START_BLOCK, stmt |-> 1, ptr |-> 0, wait |-> FALSE]

Top == Last(host)
TopMir == mir_map[Top.mir]
block_data == TopMir.blocks[Top.block]
Terminator == block_data.terminator

Running == status = "running" /\ Len(host) > 0
AtStatement == Running /\ ~Top.wait /\ Top.stmt <= Len(block_data.statements)
AtTerminator == Running /\ ~Top.wait /\ Top.stmt > Len(block_data.statements)

SetTop(rec) == [host EXCEPT ![Len(host)] = rec]
JumpTo(target) == SetTop([Top EXCEPT !.block = target, !.stmt = 1])

\* a panic: the process ends where it is
Abort(e) ==
    /\ status' = "panicked"
    /\ err' = e
    /\ UNCHANGED <<value_stack, call_stack, host, ret_val, overflow_checks, hist, runs>>

Init ==
    /\ value_stack = <<>>
    /\ call_stack = <<>>
    /\ host = <<>>
    /\ ret_val = Uninit
    /\ status = "idle"
    /\ err = "none"
    /\ overflow_checks \in BOOLEAN
    /\ hist = <<>>
    /\ runs = <<>>

\* ------------------------------------------------------------------------
\* Actions
\* ------------------------------------------------------------------------

\* the driver invokes interpreter.call(mir, args) on the interpreter it has
\* just constructed: the prologue of call
Start(d, args) ==
    /\ status = "idle"
    /\ LET pushed == push_stack_frame(value_stack, call_stack, mir_map[d], args)
       IN  /\ value_stack' = pushed.vs
           /\ call_stack' = pushed.cs
           /\ status' = IF pushed.ok THEN "running" ELSE "panicked"
           /\ err' = IF pushed.ok THEN "none" ELSE "index_out_of_bounds"
    /\ host' = <<Activation(d, args)>>
    /\ hist' = <<[len0 |-> Len(value_stack), snap |-> <<>>]>>
    /\ ret_val' = Uninit
    /\ UNCHANGED <<overflow_checks, runs>>

\* interpret_start_points: one call per interpreter, of any body of the map
Invoke ==
    /\ status = "idle"
    /\ \E d \in DOMAIN mir_map, args \in ArgVectors : Start(d, args)

\* StatementKind::Assign
StmtAssign ==
    /\ AtStatement
    /\ block_data.statements[Top.stmt].k = "Assign"
    /\ LET stmt == block_data.statements[Top.stmt]
           ptr == eval_lvalue(call_stack, stmt.lv)
           value == eval_rvalue(value_stack, call_stack, stmt.rv, overflow_checks)
           written == write_pointer(value_stack, ptr.ptr, value.val)
       IN  IF ~ptr.ok THEN Abort(ptr.err)
           ELSE IF ~value.ok THEN Abort(value.err)
           ELSE IF ~written.ok THEN Abort(written.err)
           ELSE /\ value_stack' = written.vs
                /\ host' = SetTop([Top EXCEPT !.stmt = @ + 1])
                /\ UNCHANGED <<call_stack, ret_val, status, err, overflow_checks, hist, runs>>

\* mutant: the statement loop does not advance past a Drop
StmtDrop_stuck ==
    /\ AtStatement
    /\ block_data.statements[Top.stmt].k = "Drop"
    /\ UNCHANGED <<value_stack, call_stack, host, ret_val, status, err, overflow_checks, hist, runs>>

\* StatementKind::Drop
StmtDrop ==
    /\ AtStatement
    /\ block_data.statements[Top.stmt].k = "Drop"
    /\ host' = SetTop([Top EXCEPT !.stmt = @ + 1])
    /\ UNCHANGED <<value_stack, call_stack, ret_val, status, err, overflow_checks, hist, runs>>

\* Terminator::Return and the epilogue of call
TermReturn ==
    /\ AtTerminator
    /\ Terminator.k = "Return"
    /\ LET value == read_lvalue(value_stack, call_stack, ReturnPointer)
           popped == pop_stack_frame(value_stack, call_stack)
       IN  IF ~value.ok THEN Abort(value.err)
           ELSE IF ~popped.ok THEN Abort("no_stack_frame")
           ELSE /\ ret_val' = value.val
                /\ value_stack' = popped.vs
                /\ call_stack' = popped.cs
                /\ host' = Front(host)
                /\ hist' = Front(hist)
                /\ status' = IF Len(host) = 1 THEN "returned" ELSE "running"
                /\ runs' = IF Len(host) = 1
                           THEN Append(runs, [mir |-> Top.mir, args |-> Top.args,
                                              out |-> value.val])
                           ELSE runs
                /\ UNCHANGED <<err, overflow_checks>>

\* Terminator::Goto
TermGoto ==
    /\ AtTerminator
    /\ Terminator.k = "Goto"
    /\ host' = JumpTo(Terminator.targets[1])
    /\ UNCHANGED <<value_stack, call_stack, ret_val, status, err, overflow_checks, hist, runs>>

\* Terminator::Call, up to the prologue of the callee's call
TermCall ==
    /\ AtTerminator
    /\ Terminator.k = "Call"
    /\ LET ptr == eval_lvalue(call_stack, Terminator.lv)
           func_val == eval_operand(value_stack, call_stack, Terminator.o)
           def_id == func_val.val.v
           arg_vals == eval_args(value_stack, call_stack, Terminator.args)
           pushed == push_stack_frame(value_stack, call_stack, mir_map[def_id], arg_vals.vals)
       IN  IF ~ptr.ok THEN Abort(ptr.err)
           ELSE IF ~func_val.ok THEN Abort(func_val.err)
           ELSE IF func_val.val.tag # "Func" THEN Abort("non_function_callee")
           ELSE IF def_id \notin DOMAIN mir_map THEN Abort("unwrap_none")
           ELSE IF ~arg_vals.ok THEN Abort(arg_vals.err)
           ELSE IF Len(host) >= MaxDepth THEN Abort("host_stack_overflow")
           ELSE /\ value_stack' = pushed.vs
                /\ call_stack' = pushed.cs
                /\ host' = Append(SetTop([Top EXCEPT !.ptr = ptr.ptr, !.wait = TRUE]),
                                  Activation(def_id, arg_vals.vals))
                /\ hist' = Append([hist EXCEPT ![Len(hist)].snap = value_stack],
                                  [len0 |-> Len(value_stack), snap |-> <<>>])
                /\ status' = IF pushed.ok THEN "running" ELSE "panicked"
                /\ err' = IF pushed.ok THEN "none" ELSE "index_out_of_bounds"
                /\ UNCHANGED <<ret_val, overflow_checks, runs>>

\* mutant: the caller goes on without storing the callee's result
CallReturn_no_store ==
    /\ Running
    /\ Top.wait
    /\ host' = SetTop([Top EXCEPT !.block = Terminator.targets[1],
                                  !.stmt = 1, !.wait = FALSE])
    /\ UNCHANGED <<value_stack, call_stack, ret_val, status, err, overflow_checks, hist, runs>>

\* Terminator::Call after the callee's call has returned
CallReturn ==
    /\ Running
    /\ Top.wait
    /\ LET written == write_pointer(value_stack, Top.ptr, ret_val)
       IN  IF ~written.ok THEN Abort(written.err)
           ELSE /\ value_stack' = written.vs
                /\ host' = SetTop([Top EXCEPT !.block = Terminator.targets[1],
                                              !.stmt = 1, !.wait = FALSE])
                /\ UNCHANGED <<call_stack, ret_val, status, err, overflow_checks, hist, runs>>

\* mutant: a condition that is not Bool(true) counts as false
TermIf_truthy ==
    /\ AtTerminator
    /\ Terminator.k = "If"
    /\ LET cond_val == eval_operand(value_stack, call_stack, Terminator.o)
       IN  IF ~cond_val.ok THEN Abort(cond_val.err)
           ELSE IF cond_val.val = Bool(TRUE)
           THEN /\ host' = JumpTo(Terminator.targets[1])
                /\ UNCHANGED <<value_stack, call_stack, ret_val, status, err, overflow_checks, hist, runs>>
           ELSE /\ host' = JumpTo(Terminator.targets[2])
                /\ UNCHANGED <<value_stack, call_stack, ret_val, status, err, overflow_checks, hist, runs>>

\* Terminator::If
TermIf ==
    /\ AtTerminator
    /\ Terminator.k = "If"
    /\ LET cond_val == eval_operand(value_stack, call_stack, Terminator.o)
       IN  IF ~cond_val.ok THEN Abort(cond_val.err)
           ELSE IF cond_val.val = Bool(TRUE)
           THEN /\ host' = JumpTo(Terminator.targets[1])
                /\ UNCHANGED <<value_stack, call_stack, ret_val, status, err, overflow_checks, hist, runs>>
           ELSE IF cond_val.val = Bool(FALSE)
           THEN /\ host' = JumpTo(Terminator.targets[2])
                /\ UNCHANGED <<value_stack, call_stack, ret_val, status, err, overflow_checks, hist, runs>>
           ELSE Abort("non_boolean_condition")

\* Terminator::SwitchInt
TermSwitchInt ==
    /\ AtTerminator
    /\ Terminator.k = "SwitchInt"
    /\ LET discr_val == read_lvalue(value_stack, call_stack, Terminator.lv)
           index == position(Terminator.values, discr_val.val, 1)
       IN  IF ~discr_val.ok THEN Abort(discr_val.err)
           ELSE IF ~index.ok THEN Abort(index.err)
           ELSE IF index.index = 0 THEN Abort("no_matching_value")
           ELSE /\ host' = JumpTo(Terminator.targets[index.index])
                /\ UNCHANGED <<value_stack, call_stack, ret_val, status, err, overflow_checks, hist, runs>>

\* every other terminator
TermOther ==
    /\ AtTerminator
    /\ Terminator.k \notin {"Return", "Goto", "Call", "If", "SwitchInt"}
    /\ Abort("unimplemented")

Next ==
    \/ Invoke
    \/ StmtAssign
    \/ StmtDrop
    \/ TermReturn
    \/ TermGoto
    \/ TermCall
    \/ CallReturn
    \/ TermIf
    \/ TermSwitchInt
    \/ TermOther

Spec == Init /\ [][Next]_vars

\* ------------------------------------------------------------------------
\* One invocation from the end of its prologue on, run to its end: the
\* interpreter is the only thread of the process, so as long as a step of
\* call is possible, one is taken
\* ------------------------------------------------------------------------

InitInvoked ==
    \E d \in DOMAIN mir_map, args \in ArgVectors :
        LET pushed == push_stack_frame(<<>>, <<>>, mir_map[d], args)
        IN  /\ value_stack = pushed.vs
            /\ call_stack = pushed.cs
            /\ host = <<Activation(d, args)>>
            /\ hist = <<[len0 |-> 0, snap |-> <<>>]>>
            /\ runs = <<>>
            /\ ret_val = Uninit
            /\ status = IF pushed.ok THEN "running" ELSE "panicked"
            /\ err = IF pushed.ok THEN "none" ELSE "index_out_of_bounds"
            /\ overflow_checks \in BOOLEAN

NextCall ==
    \/ StmtAssign
    \/ StmtDrop
    \/ TermReturn
    \/ TermGoto
    \/ TermCall
    \/ CallReturn
    \/ TermIf
    \/ TermSwitchInt
    \/ TermOther

SpecFair == InitInvoked /\ [][NextCall]_vars /\ WF_vars(NextCall)

\* ------------------------------------------------------------------------
\* The binary operators on their own: call(mir, &[Int(l), Int(r)]) for the
\* body `a op b` of every operator, from the end of the prologue on
\* ------------------------------------------------------------------------

\* operands around zero, around the shift width and at both ends of the range
Operands ==
    {MinInt, MinInt + 1, 0 - IntBits, -3, -2, -1, 0, 1, 2, 3, 5, 7,
     IntBits - 1, IntBits, IntBits + 1, MaxInt - 1, MaxInt}

InitBinaryOp ==
    \E i \in 1..Len(BinOps), l \in Operands, r \in Operands :
        LET d == BinId(BinOps[i])
            args == <<IntVal(l), IntVal(r)>>
            pushed == push_stack_frame(<<>>, <<>>, mir_map[d], args)
        IN  /\ value_stack = pushed.vs
            /\ call_stack = pushed.cs
            /\ host = <<Activation(d, args)>>
            /\ hist = <<[len0 |-> 0, snap |-> <<>>]>>
            /\ runs = <<>>
            /\ ret_val = Uninit
            /\ status = "running"
            /\ err = "none"
            /\ overflow_checks \in BOOLEAN

NextBinaryOp == StmtAssign \/ TermReturn

SpecBinaryOp == InitBinaryOp /\ [][NextBinaryOp]_vars

\* ------------------------------------------------------------------------
\* Type invariant
\* ------------------------------------------------------------------------

\* ------------------------------------------------------------------------
\* One interpreter called repeatedly: call(mir, args) again once the call
\* before it has returned
\* ------------------------------------------------------------------------

MaxRuns == 3

\* bodies that between them take every kind of step, one of them reading
\* slots it has not written
ReuseInputs ==
    { <<DefIds.scenario_a, <<>>>>,
      <<DefIds.inner, <<>>>>,
      <<DefIds.inner, <<IntVal(1), Bool(TRUE)>>>>,
      <<DefIds.fact, <<IntVal(2)>>>>,
      <<DefIds.switch, <<IntVal(1)>>>>,
      <<DefIds.outer, <<IntVal(1)>>>>,
      <<DefIds.unsupported, <<IntVal(2)>>>> }

\* mutant: the slots of the new frame are not cleared, they hold what the
\* call before left
Reinvoke_stale(d, args) ==
    /\ status \in {"idle", "returned"}
    /\ Len(runs) < MaxRuns
    /\ LET pushed == push_stack_frame(value_stack, call_stack, mir_map[d], args)
       IN  /\ value_stack' = [j \in 1..Len(pushed.vs) |->
                                 IF pushed.vs[j] = Uninit THEN ret_val ELSE pushed.vs[j]]
           /\ call_stack' = pushed.cs
           /\ status' = IF pushed.ok THEN "running" ELSE "panicked"
           /\ err' = IF pushed.ok THEN "none" ELSE "index_out_of_bounds"
    /\ host' = <<Activation(d, args)>>
    /\ hist' = <<[len0 |-> Len(value_stack), snap |-> <<>>]>>
    /\ ret_val' = Uninit
    /\ UNCHANGED <<overflow_checks, runs>>

\* the prologue of call on an interpreter that is new or whose last call
\* has returned
Reinvoke(d, args) ==
    /\ status \in {"idle", "returned"}
    /\ Len(runs) < MaxRuns
    /\ LET pushed == push_stack_frame(value_stack, call_stack, mir_map[d], args)
       IN  /\ value_stack' = pushed.vs
           /\ call_stack' = pushed.cs
           /\ status' = IF pushed.ok THEN "running" ELSE "panicked"
           /\ err' = IF pushed.ok THEN "none" ELSE "index_out_of_bounds"
    /\ host' = <<Activation(d, args)>>
    /\ hist' = <<[len0 |-> Len(value_stack), snap |-> <<>>]>>
    /\ ret_val' = Uninit
    /\ UNCHANGED <<overflow_checks, runs>>

InvokeAgain == \E input \in ReuseInputs : Reinvoke(input[1], input[2])

NextReuse == InvokeAgain \/ NextCall

SpecReuse == Init /\ [][NextReuse]_vars

TypeOK ==
    /\ status \in {"idle", "running", "returned", "panicked"}
    /\ Len(host) = Len(hist)
    /\ \A i \in 1..Len(value_stack) : value_stack[i].tag \in {"Uninit", "Bool", "Int", "Func"}
    /\ \A i \in 1..Len(value_stack) : value_stack[i].tag = "Int" => InRange(value_stack[i].v)

\* ------------------------------------------------------------------------
\* Vocabulary of the properties
\* ------------------------------------------------------------------------

\* the index in value_stack of the slot a location names in a frame
SlotOf(frame, lv) ==
    CASE lv.k = "ReturnPointer" -> frame.offset + 1
      [] lv.k = "Arg" -> frame.offset + 2 + lv.i
      [] lv.k = "Var" -> frame.offset + 2 + frame.num_args + lv.i
      [] lv.k = "Temp" -> frame.offset + 2 + frame.num_args + frame.num_vars + lv.i

RECURSIVE SumSizes(_)
SumSizes(cs) ==
    IF Len(cs) = 0 THEN 0
    ELSE SumSizes(Front(cs))
         + 1 + Last(cs).num_args + Last(cs).num_vars + Last(cs).num_temps

\* the frame locations of a step are resolved in, and the steps by kind
CurFrame == Last(call_stack)
CallStep == AtTerminator /\ Terminator.k = "Call"
ResumeStep == Running /\ Top.wait
SwitchStep == AtTerminator /\ Terminator.k = "SwitchInt"
IfStep == AtTerminator /\ Terminator.k = "If"

\* an operand that has a value, and that value read off the stack / the MIR
HasValue(o) ==
    \/ o.k = "Consume" /\ o.lv.k \in {"ReturnPointer", "Arg", "Var", "Temp"}
    \/ o.k = "Value" /\ o.c.k \in {"Int", "Bool"}
    \/ o.k = "Item"
ValueOf(o, frame, vs) ==
    CASE o.k = "Consume" -> vs[SlotOf(frame, o.lv)]
      [] o.k = "Value" -> [tag |-> o.c.k, v |-> o.c.v]
      [] o.k = "Item" -> [tag |-> "Func", v |-> o.d]

\* the innermost activation after the step
NewTop == host'[Len(host')]

\* this step is the normal completion of the innermost call
CallCompletes == status = "running" /\ Len(host') < Len(host) /\ status' # "panicked"

\* ------------------------------------------------------------------------
\* C1
\* ------------------------------------------------------------------------

\* C1: whenever an invocation of call completes normally (top-level, nested
\* or recursive), the value stack is as long as it was when that invocation
\* began.
C1_StackLengthRestored ==
    [][CallCompletes => Len(value_stack') = Last(hist).len0]_vars

\* a recursive call of fact has returned to a caller that is itself a callee,
\* with arguments and results above it gone
C1_Witness ==
    /\ status = "running"
    /\ Len(host) >= 3
    /\ Top.wait
    /\ Top.mir = DefIds.fact
    /\ Len(value_stack) = Len(Last(hist).snap)

\* ------------------------------------------------------------------------
\* C2
\* ------------------------------------------------------------------------

FrameSizesCoverStack == SumSizes(call_stack) = Len(value_stack)

PopTruncatesToOffset ==
    Len(call_stack') < Len(call_stack)
        => /\ call_stack' = Front(call_stack)
           /\ Len(value_stack') = Last(call_stack).offset
           /\ value_stack' = SubSeq(value_stack, 1, Last(call_stack).offset)

\* C2: in every reachable state the sizes 1 + num_args + num_vars + num_temps
\* of the frames on the call stack add up to the length of the value stack,
\* and a pop truncates the value stack to exactly the popped frame's offset.
C2_FrameAccounting == []FrameSizesCoverStack /\ [][PopTruncatesToOffset]_vars

\* two frames of different sizes are live
C2_Witness ==
    /\ status = "running"
    /\ Len(call_stack) = 2
    /\ call_stack[1].offset = 0
    /\ call_stack[2].offset = 5
    /\ Len(value_stack) = 10

\* ------------------------------------------------------------------------
\* C3
\* ------------------------------------------------------------------------

\* C3: a call whose argument vector is longer or shorter than the number of
\* arguments the callee body declares ends in an ArgumentCountMismatch error.
C3_MismatchIsAnError ==
    \A i \in 1..Len(host) :
        Len(host[i].args) # mir_map[host[i].mir].num_args
            => status = "panicked" /\ err = "argument_count_mismatch"

\* ------------------------------------------------------------------------
\* C4
\* ------------------------------------------------------------------------

\* C4: the value a call yields at a Return terminator is the content the
\* frame's return slot had when the terminator was reached, and the frame
\* is off the call stack once the value is yielded.
C4_ReturnYieldsReturnSlot ==
    [][CallCompletes =>
          /\ Terminator.k = "Return"
          /\ ret_val' = value_stack[Last(call_stack).offset + 1]
          /\ call_stack' = Front(call_stack)]_vars

\* inner has yielded the first argument outer passed it
C4_Witness ==
    /\ status = "running"
    /\ Len(host) = 1
    /\ Top.wait
    /\ Top.mir = DefIds.outer
    /\ Len(call_stack) = 1
    /\ ret_val = IntVal(MaxInt)
    /\ value_stack[2] = IntVal(MaxInt)

\* ------------------------------------------------------------------------
\* C5
\* ------------------------------------------------------------------------

\* a Call that pushes a frame: the callee is a function reference and the
\* callee's argument vector is, position by position, the value each
\* argument expression has in the caller's frame before the push
CallEvaluatesInCaller ==
    (CallStep /\ Len(call_stack') > Len(call_stack)) =>
        LET callee == ValueOf(Terminator.o, CurFrame, value_stack)
            n == Len(Terminator.args)
        IN  /\ HasValue(Terminator.o) /\ callee.tag = "Func"
            /\ \A i \in 1..n : HasValue(Terminator.args[i])
            /\ Len(host') = Len(host) + 1
            /\ NewTop.mir = callee.v
            /\ NewTop.args = [i \in 1..n |-> ValueOf(Terminator.args[i], CurFrame, value_stack)]
            /\ SubSeq(call_stack', 1, Len(call_stack)) = call_stack
            /\ Len(call_stack') = Len(call_stack) + 1

\* the caller's continuation: the returned value goes to dest resolved in
\* the caller's frame, and the caller goes on at block next
CallStoresAtDest ==
    ResumeStep =>
        /\ status' = "running"
        /\ value_stack' = [value_stack EXCEPT ![SlotOf(CurFrame, Terminator.lv)] = ret_val]
        /\ call_stack' = call_stack
        /\ Len(host') = Len(host)
        /\ NewTop.block = Terminator.targets[1]
        /\ NewTop.stmt = 1
        /\ ~NewTop.wait

\* a callee that is a value but not a function reference
NonFunctionCalleeIsFatal ==
    (CallStep /\ HasValue(Terminator.o)
              /\ ValueOf(Terminator.o, CurFrame, value_stack).tag # "Func") =>
        /\ status' = "panicked"
        /\ call_stack' = call_stack
        /\ value_stack' = value_stack
        /\ host' = host

\* C5: a Call whose callee is a function reference evaluates its argument
\* expressions in order in the caller's frame before the callee's frame is
\* pushed; when the callee has returned, the value is stored at dest in the
\* caller's frame and the caller continues at next; a callee that is any
\* other value is a fatal error and pushes no frame.
C5_CallTerminator ==
    [][CallEvaluatesInCaller /\ CallStoresAtDest /\ NonFunctionCalleeIsFatal]_vars

\* outer has stored what inner returned (outer's own argument) in Temp(1)
\* and is at its second block
C5_Witness ==
    /\ status = "running"
    /\ Len(host) = 1
    /\ Top.mir = DefIds.outer
    /\ Top.block = 2
    /\ Top.stmt = 1
    /\ ~Top.wait
    /\ value_stack[2] = Bool(TRUE)
    /\ value_stack[5] = Bool(TRUE)

\* ------------------------------------------------------------------------
\* C6
\* ------------------------------------------------------------------------

\* the slots of every activation that waits for a callee are as they were
\* when it called
EnclosingFramesUntouched ==
    \A i \in 1..Len(host) :
        host[i].wait =>
            /\ Len(value_stack) >= Len(hist[i].snap)
            /\ SubSeq(value_stack, 1, Len(hist[i].snap)) = hist[i].snap

\* a statement stores nothing below the topmost frame
StoresStayInTopFrame ==
    AtStatement =>
        \A j \in 1..CurFrame.offset : value_stack'[j] = value_stack[j]

\* when the caller goes on, only the destination slot differs from the call
OnlyDestChanged ==
    ResumeStep =>
        /\ Len(value_stack') = Len(Last(hist).snap)
        /\ \A j \in 1..Len(value_stack') :
              j # SlotOf(CurFrame, Terminator.lv) => value_stack'[j] = Last(hist).snap[j]

\* C6: locations are resolved against the topmost frame only, so a callee
\* never loads from or stores to a slot of an enclosing frame, and when a
\* nested call has returned every slot of the caller's frame except the
\* destination slot holds what it held before the call.
C6_CallerFramePreserved ==
    []EnclosingFramesUntouched /\ [][StoresStayInTopFrame /\ OnlyDestChanged]_vars

\* inner has overwritten its own Arg, Var and Temp slots; outer's slots of
\* the same names still hold outer's values
C6_Witness ==
    /\ status = "running"
    /\ Len(host) = 2
    /\ Top.mir = DefIds.inner
    /\ Top.stmt = 6
    /\ host[1].mir = DefIds.outer
    /\ value_stack[2] = IntVal(-1)
    /\ value_stack[3] = IntVal(-1)
    /\ value_stack[4] = IntVal(5)
    /\ value_stack[7] = IntVal(5)
    /\ value_stack[9] = Bool(TRUE)

\* ------------------------------------------------------------------------
\* C7, C8
\* ------------------------------------------------------------------------

\* the discriminant of the SwitchInt at hand: the content of the discr slot
Discr == value_stack[SlotOf(CurFrame, Terminator.lv)]

\* the candidates structurally equal to the discriminant
Matches ==
    {k \in 1..Len(Terminator.values) :
        /\ Terminator.values[k].k \in {"Int", "Bool"}
        /\ Discr.tag = Terminator.values[k].k
        /\ Discr.v = Terminator.values[k].v}

Smallest(S) == CHOOSE k \in S : \A j \in S : k <= j

\* C7: SwitchInt reads the discriminant from the discr slot and goes to
\* targets[k] for the smallest k whose candidate values[k] is structurally
\* equal to it (the first match wins when a candidate is repeated).
C7_SwitchIntFirstMatch ==
    [][(SwitchStep /\ Matches # {}) =>
          /\ status' = "running"
          /\ Len(host') = Len(host)
          /\ NewTop.block = Terminator.targets[Smallest(Matches)]
          /\ NewTop.stmt = 1
          /\ value_stack' = value_stack
          /\ call_stack' = call_stack]_vars

\* candidates 0, 1, 2, 1 and discriminant Int(1): the second target's block
C7_Witness ==
    /\ status = "running"
    /\ Len(host) = 1
    /\ Top.mir = DefIds.switch
    /\ Top.block = 3
    /\ value_stack[2] = IntVal(1)

\* C8 as stated: a SwitchInt whose discriminant equals none of its
\* candidates ends in the NoMatchingCase error ("discriminant matched no
\* values"), enters no target and returns nothing.
C8_NoMatchIsNoMatchingCase ==
    [][(SwitchStep /\ Matches = {}) =>
          /\ status' = "panicked"
          /\ err' = "no_matching_value"
          /\ host' = host
          /\ ret_val' = ret_val]_vars

\* C8 as amended: a SwitchInt whose discriminant equals none of its
\* candidates ends in a fatal error, enters no target and returns nothing;
\* the error is NoMatchingCase when every candidate is a constant of a
\* supported kind (Int, Bool), and the unsupported-construct panic of
\* eval_constant when some candidate is of another kind.
C8_NoMatchIsFatal ==
    [][(SwitchStep /\ Matches = {}) =>
          /\ status' = "panicked"
          /\ err' = IF \A k \in 1..Len(Terminator.values) :
                          Terminator.values[k].k \in {"Int", "Bool"}
                    THEN "no_matching_value"
                    ELSE "unimplemented"
          /\ host' = host
          /\ value_stack' = value_stack
          /\ call_stack' = call_stack
          /\ ret_val' = ret_val]_vars

\* an Uninit discriminant against the candidates 0, 1, 2, 1
C8_Witness ==
    /\ status = "panicked"
    /\ err = "no_matching_value"
    /\ Len(host) = 1
    /\ Top.mir = DefIds.switch
    /\ Top.block = 1
    /\ value_stack[2] = Uninit

\* ------------------------------------------------------------------------
\* C9
\* ------------------------------------------------------------------------

\* C9: If goes to its first target when cond is Bool(true) and to its second
\* when cond is Bool(false); a cond of any other kind of value is a fatal
\* type error and neither target is entered.
C9_IfBranches ==
    [][(IfStep /\ HasValue(Terminator.o)) =>
          LET cond == ValueOf(Terminator.o, CurFrame, value_stack)
          IN  IF cond.tag = "Bool"
              THEN /\ status' = "running"
                   /\ Len(host') = Len(host)
                   /\ NewTop.block = Terminator.targets[IF cond.v = 1 THEN 1 ELSE 2]
                   /\ NewTop.stmt = 1
                   /\ value_stack' = value_stack
              ELSE /\ status' = "panicked"
                   /\ err' = "non_boolean_condition"
                   /\ host' = host
                   /\ value_stack' = value_stack]_vars

\* an Int condition has ended the run at the If, in its block
C9_Witness ==
    /\ status = "panicked"
    /\ err = "non_boolean_condition"
    /\ Len(host) = 1
    /\ Top.mir = DefIds.branch
    /\ Top.block = 1
    /\ value_stack[2] = IntVal(1)

\* ------------------------------------------------------------------------
\* C10
\* ------------------------------------------------------------------------

\* the Assign at hand, when it is a BinaryOp of two operands holding Ints
CurStmt == block_data.statements[Top.stmt]
LeftVal == ValueOf(CurStmt.rv.l, CurFrame, value_stack)
RightVal == ValueOf(CurStmt.rv.r, CurFrame, value_stack)
IntBinaryStep ==
    /\ AtStatement
    /\ CurStmt.k = "Assign"
    /\ CurStmt.rv.k = "BinaryOp"
    /\ HasValue(CurStmt.rv.l) /\ HasValue(CurStmt.rv.r)
    /\ LeftVal.tag = "Int" /\ RightVal.tag = "Int"

\* the value the step stored
Stored == value_stack'[SlotOf(CurFrame, CurStmt.lv)]

\* bit i of the two's-complement pattern of a signed x
BitAt(x, i) == (x \div (2 ^ i)) % 2

Representable(x) == 0 - 2 ^ (IntBits - 1) <= x /\ x < 2 ^ (IntBits - 1)
Congruent(x, y) == (x - y) % (2 ^ IntBits) = 0

\* res is `l op r` in two's-complement arithmetic of IntBits bits, wrapping
\* on overflow and with the shift amount taken modulo the width
IsNative(op, l, r, res) ==
    IF op \in {"Eq", "Lt", "Le", "Ne", "Ge", "Gt"}
    THEN /\ res.tag = "Bool"
         /\ (res.v = 1) = CASE op = "Eq" -> l = r
                            [] op = "Lt" -> l < r
                            [] op = "Le" -> l <= r
                            [] op = "Ne" -> l # r
                            [] op = "Ge" -> l >= r
                            [] op = "Gt" -> l > r
         /\ res.v \in {0, 1}
    ELSE /\ res.tag = "Int"
         /\ Representable(res.v)
         /\ CASE op = "Add" -> Congruent(res.v, l + r)
              [] op = "Sub" -> Congruent(res.v, l - r)
              [] op = "Mul" -> Congruent(res.v, l * r)
              [] op = "Div" ->
                    /\ r # 0
                    /\ LET rest == l - res.v * r
                       IN  /\ (IF rest < 0 THEN 0 - rest ELSE rest) < (IF r < 0 THEN 0 - r ELSE r)
                           /\ rest * l >= 0
              [] op = "Rem" ->
                    /\ r # 0
                    /\ (IF res.v < 0 THEN 0 - res.v ELSE res.v) < (IF r < 0 THEN 0 - r ELSE r)
                    /\ res.v * l >= 0
                    /\ (l - res.v) % (IF r < 0 THEN 0 - r ELSE r) = 0
              [] op = "BitXor" ->
                    \A i \in 0..(IntBits - 1) :
                        (BitAt(res.v, i) = 1) = (BitAt(l, i) # BitAt(r, i))
              [] op = "BitAnd" ->
                    \A i \in 0..(IntBits - 1) :
                        (BitAt(res.v, i) = 1) = (BitAt(l, i) = 1 /\ BitAt(r, i) = 1)
              [] op = "BitOr" ->
                    \A i \in 0..(IntBits - 1) :
                        (BitAt(res.v, i) = 1) = (BitAt(l, i) = 1 \/ BitAt(r, i) = 1)
              [] op = "Shl" -> Congruent(res.v, l * 2 ^ (r % IntBits))
              [] op = "Shr" ->
                    /\ res.v * 2 ^ (r % IntBits) <= l
                    /\ l < (res.v + 1) * 2 ^ (r % IntBits)

\* the operand pairs for which the host operation panics: division by zero
\* and MIN / -1 always; overflow of +, -, * and a shift amount outside
\* 0..IntBits-1 in a build with overflow checks
HostPanics(op, l, r, checks) ==
    \/ op \in {"Div", "Rem"} /\ (r = 0 \/ (l = 0 - 2 ^ (IntBits - 1) /\ r = -1))
    \/ checks /\ op = "Add" /\ ~Representable(l + r)
    \/ checks /\ op = "Sub" /\ ~Representable(l - r)
    \/ checks /\ op = "Mul" /\ ~Representable(l * r)
    \/ checks /\ op \in {"Shl", "Shr"} /\ ~(0 <= r /\ r < IntBits)

\* C10 as stated, read for a build whose arithmetic wraps: for every pair of
\* Int operands and every binary operator BinaryOp yields the wrapping
\* two's-complement result, a Bool for the six comparisons and an Int for
\* the other ten.
C10_AlwaysYieldsNative ==
    [][(IntBinaryStep /\ ~overflow_checks) =>
          /\ status' = "running"
          /\ IsNative(CurStmt.rv.op, LeftVal.v, RightVal.v, Stored)]_vars

\* C10 as amended: whenever BinaryOp yields a value for two Int operands it
\* is the wrapping two's-complement result (a Bool for the comparisons, an
\* Int otherwise); it yields none, and the invocation aborts with the
\* destination unwritten, exactly for Div and Rem by zero or of MIN by -1
\* and, in a build with overflow checks, for an overflowing Add, Sub, Mul
\* and a Shl or Shr by an amount outside 0..width-1.
C10_NativeUnlessHostPanics ==
    [][IntBinaryStep =>
          IF HostPanics(CurStmt.rv.op, LeftVal.v, RightVal.v, overflow_checks)
          THEN /\ status' = "panicked"
               /\ err' \in {"division_by_zero", "arithmetic_overflow"}
               /\ value_stack' = value_stack
          ELSE /\ status' = "running"
               /\ IsNative(CurStmt.rv.op, LeftVal.v, RightVal.v, Stored)]_vars

\* MAX + 1 has wrapped to MIN in a build without overflow checks
C10_Witness ==
    /\ status = "running"
    /\ ~overflow_checks
    /\ Len(host) = 1
    /\ Top.mir = BinId("Add")
    /\ Top.stmt = 2
    /\ value_stack = <<IntVal(MinInt), IntVal(MaxInt), IntVal(1)>>

\* ------------------------------------------------------------------------
\* C11
\* ------------------------------------------------------------------------

Ended == status \in {"returned", "panicked"}

\* the innermost activation is at a control transfer of its body
AtTransfer ==
    AtTerminator /\ Terminator.k \in {"Goto", "If", "SwitchInt", "Call"}

\* C11 as stated: every invocation eventually completes at a Return or
\* aborts on a fatal error; none runs forever.
C11_AlwaysEnds == <>Ended

\* C11 as amended: an invocation completes at a Return, aborts on a fatal
\* error (the exhaustion of the host stack by unbounded recursion included),
\* or runs forever around a cycle of its control-flow graph, reaching
\* control transfers again and again; nothing else keeps it running.
C11_EndsUnlessCycling == <>Ended \/ []<>AtTransfer

\* the body `loop {}` on its way round its cycle of Gotos
C11_Witness ==
    /\ status = "running"
    /\ Len(host) = 1
    /\ Top.mir = DefIds.goto_loop
    /\ Top.block = 2

\* ------------------------------------------------------------------------
\* C12
\* ------------------------------------------------------------------------

\* the statement at hand is an Assign the interpreter cannot carry out: an
\* unsupported location, rvalue or constant kind, or an operator applied to
\* a value that is not an Int
AssignIsFatal ==
    /\ AtStatement
    /\ CurStmt.k = "Assign"
    /\ \/ CurStmt.lv.k \notin {"ReturnPointer", "Arg", "Var", "Temp"}
       \/ CurStmt.rv.k \notin {"Use", "BinaryOp", "UnaryOp"}
       \/ ~HasValue(CurStmt.rv.l)
       \/ CurStmt.rv.k = "BinaryOp" /\ ~HasValue(CurStmt.rv.r)
       \/ CurStmt.rv.k \in {"BinaryOp", "UnaryOp"} /\ LeftVal.tag # "Int"
       \/ CurStmt.rv.k = "BinaryOp" /\ RightVal.tag # "Int"

\* the terminator at hand is one the interpreter cannot carry out
TerminatorIsFatal ==
    /\ AtTerminator
    /\ \/ Terminator.k \notin {"Return", "Goto", "Call", "If", "SwitchInt"}
       \/ /\ Terminator.k = "If"
          /\ \/ ~HasValue(Terminator.o)
             \/ ValueOf(Terminator.o, CurFrame, value_stack).tag # "Bool"
       \/ Terminator.k = "SwitchInt" /\ Matches = {}
       \/ /\ Terminator.k = "Call"
          /\ \/ ~HasValue(Terminator.o)
             \/ ValueOf(Terminator.o, CurFrame, value_stack).tag # "Func"
             \/ \E i \in 1..Len(Terminator.args) : ~HasValue(Terminator.args[i])

\* the step at a fatal construct ends the run there: nothing is yielded and
\* no activation, at whatever depth, goes on or returns
FatalStepAborts ==
    (AssignIsFatal \/ TerminatorIsFatal) =>
        /\ status' = "panicked"
        /\ err' # "none"
        /\ ret_val' = ret_val
        /\ host' = host
        /\ value_stack' = value_stack

\* an aborted invocation takes no further step
AbortIsFinal == status = "panicked" => UNCHANGED vars

\* the invocation that aborted is still unfinished: its activations, the
\* top-level one included, are where they were
AbortedNeverReturned == status = "panicked" => Len(host) >= 1 /\ err # "none"

\* C12: an unsupported construct or other fatal error reached anywhere in an
\* invocation, at any call depth, aborts the whole invocation; call returns
\* no value for it.
C12_FatalAbortsInvocation ==
    []AbortedNeverReturned /\ [][FatalStepAborts /\ AbortIsFinal]_vars

\* the floating-point constant of a callee has aborted the invocation at
\* depth two
C12_Witness ==
    /\ status = "panicked"
    /\ err = "unimplemented"
    /\ Len(host) = 2
    /\ host[1].mir = DefIds.unsupported
    /\ Top.mir = DefIds.float_body
    /\ ret_val = Uninit

\* ------------------------------------------------------------------------
\* C13
\* ------------------------------------------------------------------------

RECURSIVE Factorial(_)
Factorial(n) == IF n <= 1 THEN 1 ELSE n * Factorial(n - 1)

\* the arguments of the scenario: 5 and what the recursion passes down
FactInputs == 0..5

\* the activation at position i runs the factorial body on one of the inputs
IsFactOf(i, n) == host[i].mir = DefIds.fact /\ host[i].args = <<IntVal(n)>>

\* every completing activation of the factorial body yields n!
FactYieldsFactorial ==
    \A n \in FactInputs :
        CallCompletes /\ IsFactOf(Len(host), n) =>
            ret_val' = IntVal(Factorial(n))

\* when the top-level activation completes, no frame is left
FactLeavesNoFrame ==
    \A n \in FactInputs :
        CallCompletes /\ Len(host) = 1 /\ IsFactOf(1, n) =>
            /\ status' = "returned"
            /\ call_stack' = <<>>
            /\ value_stack' = <<>>

\* an invocation of the factorial body on one of the inputs does not abort
FactDoesNotAbort ==
    \A n \in FactInputs :
        host # <<>> /\ IsFactOf(1, n) => status # "panicked"

\* C13: the recursive factorial body invoked with Integer(n) returns Integer(n!)
\* (120 for n = 5) through nested activations, and the call stack is empty
\* when the invocation has returned.
C13_FactorialScenario ==
    []FactDoesNotAbort /\ [][FactYieldsFactorial /\ FactLeavesNoFrame]_vars

\* the invocation on 5 is about to return: 120 in its return slot, every
\* nested activation gone
C13_Witness ==
    /\ status = "running"
    /\ Len(host) = 1
    /\ IsFactOf(1, 5)
    /\ AtTerminator
    /\ Terminator.k = "Return"
    /\ Len(call_stack) = 1
    /\ value_stack[1] = IntVal(120)

\* ------------------------------------------------------------------------
\* C14
\* ------------------------------------------------------------------------

SameCall(r, q) == r.mir = q.mir /\ r.args = q.args

\* two completed calls of one body with the same arguments, the first of
\* them on the fresh interpreter, returned the same value
SameCallSameResult ==
    \A i, j \in 1..Len(runs) : SameCall(runs[i], runs[j]) => runs[i].out = runs[j].out

\* a call that has returned before does not abort when it is made again
RepeatDoesNotAbort ==
    status = "panicked" =>
        \A i \in 1..Len(runs) : ~SameCall(runs[i], host[1])

\* a returned call leaves no value and no frame behind
NothingLeftBehind == status = "returned" => value_stack = <<>> /\ call_stack = <<>>

\* C14: the same body with the same arguments, evaluated on a fresh
\* interpreter and again on the same interpreter after other calls, yields
\* the same result; nothing an earlier call left has an effect.
C14_SameCallSameOutcome ==
    SameCallSameResult /\ RepeatDoesNotAbort /\ NothingLeftBehind

\* a body that reads slots it never wrote has been run fresh and again after
\* a call that returned 14
C14_Witness ==
    /\ status = "returned"
    /\ Len(runs) = 3
    /\ runs[1].mir = DefIds.inner /\ runs[1].args = <<>>
    /\ runs[2].mir = DefIds.scenario_a /\ runs[2].out = IntVal(14)
    /\ SameCall(runs[1], runs[3])
    /\ runs[3].out = Uninit

\* ------------------------------------------------------------------------
\* C15
\* ------------------------------------------------------------------------

\* a step that pushed a frame, the frame, and the body and arguments it was
\* pushed for
PushStep == Len(call_stack') = Len(call_stack) + 1
PushedFrame == call_stack'[Len(call_stack')]
PushedMir == mir_map[NewTop.mir]
PushedArgs == NewTop.args

\* the slots of the pushed frame, counted from its base
PushedSlot(k) == value_stack'[Len(value_stack) + 1 + k]

FreshFrame ==
    LET a == PushedMir.num_args
        rest == PushedMir.num_vars + PushedMir.num_temps
    IN  /\ status' = "running"
        /\ PushedFrame.offset = Len(value_stack)
        /\ Len(value_stack') = Len(value_stack) + 1 + a + rest
        /\ PushedSlot(0) = Uninit
        /\ \A i \in 1..a : PushedSlot(i) = PushedArgs[i]
        /\ \A i \in 1..rest : PushedSlot(a + i) = Uninit
        /\ \A j \in 1..Len(value_stack) : value_stack'[j] = value_stack[j]

\* C15: right after push_stack_frame(body, args) with as many args as the
\* body declares, the new frame starts at the former end of the value stack,
\* its return, variable and temporary slots are Uninit, argument slot i holds
\* args[i], and the slots below the frame are as before.
C15_PushedFrameIsFresh ==
    [][PushStep /\ Len(PushedArgs) = PushedMir.num_args => FreshFrame]_vars

\* the callee's frame above the caller's five slots: return slot, the two
\* arguments, one variable, one temporary
C15_Witness ==
    /\ status = "running"
    /\ Len(host) = 2
    /\ host[1].mir = DefIds.outer /\ host[1].args = <<IntVal(1)>>
    /\ Top.mir = DefIds.inner /\ Top.block = START_BLOCK /\ Top.stmt = 1
    /\ call_stack[2].offset = 5
    /\ SubSeq(value_stack, 6, 10) = <<Uninit, IntVal(1), IntVal(5), Uninit, Uninit>>

\* ------------------------------------------------------------------------
\* C16
\* ------------------------------------------------------------------------

\* the locations a frame declares
Locations(frame) ==
    {ReturnPointer}
    \cup {Arg(i) : i \in 0..(frame.num_args - 1)}
    \cup {Var(i) : i \in 0..(frame.num_vars - 1)}
    \cup {Temp(i) : i \in 0..(frame.num_temps - 1)}

\* the slot of a location, counted from zero, by the layout of the frame
LayoutSlot(frame, lv) ==
    LET base == frame.offset
    IN  CASE lv.k = "ReturnPointer" -> base
          [] lv.k = "Arg" -> base + 1 + lv.i
          [] lv.k = "Var" -> base + 1 + frame.num_args + lv.i
          [] lv.k = "Temp" -> base + 1 + frame.num_args + frame.num_vars + lv.i

FrameSize(frame) == 1 + frame.num_args + frame.num_vars + frame.num_temps

\* what eval_lvalue resolves a location to in the topmost frame
Resolved(lv) == eval_lvalue(call_stack, lv)

ResolutionIsExact ==
    Running =>
        /\ \A lv \in Locations(CurFrame) :
              /\ Resolved(lv).ok
              /\ Resolved(lv).ptr = LayoutSlot(CurFrame, lv)
              /\ CurFrame.offset <= Resolved(lv).ptr
              /\ Resolved(lv).ptr < CurFrame.offset + FrameSize(CurFrame)
              /\ Resolved(lv).ptr < Len(value_stack)
              /\ read_pointer(value_stack, Resolved(lv).ptr).ok
              /\ write_pointer(value_stack, Resolved(lv).ptr, Uninit).ok
        /\ \A lv1, lv2 \in Locations(CurFrame) :
              lv1 # lv2 => Resolved(lv1).ptr # Resolved(lv2).ptr

\* the loads and stores of the statements and terminators stay inside the
\* value stack: the only indexing that can fail is the copy of too many
\* arguments into a new frame
AccessesStayInside == err' = "index_out_of_bounds" /\ err = "none" => PushStep

\* C16: in the topmost frame ReturnPointer resolves to base, Arg(i) to
\* base+1+i, Var(i) to base+1+arg_count+i and Temp(i) to
\* base+1+arg_count+var_count+i; within the declared counts distinct
\* locations get distinct slots, all in [base, base+size), and no load or
\* store through them indexes outside the value stack.
C16_LocationResolution ==
    []ResolutionIsExact /\ [][AccessesStayInside]_vars

\* the caller body has stored 5 through its first temporary, the fourth slot
\* of a frame with one argument and one variable
C16_Witness ==
    /\ status = "running"
    /\ Len(host) = 1
    /\ Top.mir = DefIds.outer /\ Top.block = START_BLOCK /\ Top.stmt = 3
    /\ Resolved(Temp(0)).ptr = 3
    /\ value_stack[4] = IntVal(5)

\* ------------------------------------------------------------------------
\* C17
\* ------------------------------------------------------------------------

\* frame i belongs to activation i, the activations below the innermost are
\* all inside a Call terminator, and each frame starts where the frames
\* below it end
FramesAreNested ==
    /\ Len(call_stack) = Len(host)
    /\ \A i \in 1..Len(call_stack) :
          /\ call_stack[i].num_args = mir_map[host[i].mir].num_args
          /\ call_stack[i].num_vars = mir_map[host[i].mir].num_vars
          /\ call_stack[i].num_temps = mir_map[host[i].mir].num_temps
          /\ call_stack[i].offset = SumSizes(SubSeq(call_stack, 1, i - 1))
    /\ \A i \in 1..(Len(host) - 1) :
          /\ host[i].wait
          /\ mir_map[host[i].mir].blocks[host[i].block].terminator.k = "Call"

\* a step leaves the call stack alone, pushes one frame on top of it, or
\* pops its topmost frame, which is the frame of the innermost activation
\* returning
PushOrPopOnTop ==
    \/ call_stack' = call_stack /\ Len(host') = Len(host)
    \/ /\ PushStep
       /\ Front(call_stack') = call_stack
       /\ Len(host') = Len(host) + 1
       /\ Len(host) > 0 => CallStep
    \/ /\ call_stack' = Front(call_stack)
       /\ call_stack # <<>>
       /\ host' = Front(host)
       /\ AtTerminator /\ Terminator.k = "Return"

\* while a callee runs, its callers stay where they are, frames included
CallersAreSuspended ==
    \A i \in 1..(Len(host) - 1) :
        i <= Len(host') =>
            /\ call_stack'[i] = call_stack[i]
            /\ host'[i].block = host[i].block
            /\ host'[i].stmt = host[i].stmt
            /\ i < Len(host') => host'[i] = host[i]

\* a caller moves to its next block only as the innermost activation, its
\* callee's frame gone
ResumeIsOnTop ==
    ResumeStep /\ status' = "running" =>
        /\ Len(call_stack) = Len(host)
        /\ call_stack' = call_stack
        /\ NewTop.block = Terminator.targets[1]

\* C17: calls are strictly nested: a caller's frame stays directly below its
\* callee's with the same offset, the callee's frame is popped before the
\* caller goes on to its next block, frames are popped in the reverse order
\* of their pushes, and every frame's offset is the sum of the sizes of the
\* frames below it.
C17_CallsAreNested ==
    []FramesAreNested
    /\ [][PushOrPopOnTop /\ CallersAreSuspended /\ ResumeIsOnTop]_vars

\* two levels down the recursion the innermost call has returned and its
\* frame is gone; the caller, whose frame is the topmost of three, is about
\* to resume
C17_Witness ==
    /\ status = "running"
    /\ Len(host) = 3
    /\ \A i \in 1..3 : host[i].mir = DefIds.fact /\ host[i].wait
    /\ Len(call_stack) = 3
    /\ call_stack[1].offset = 0 /\ call_stack[2].offset = 5 /\ call_stack[3].offset = 10
    /\ Len(value_stack) = 15

\* ------------------------------------------------------------------------
\* C18
\* ------------------------------------------------------------------------

\* an Assign statement that was carried out
AssignStep == AtStatement /\ CurStmt.k = "Assign" /\ status' = "running"

\* res is the value of the statement's expression in the state before it
IsValueOfExpression(res) ==
    CASE CurStmt.rv.k = "Use" -> res = LeftVal
      [] CurStmt.rv.k = "BinaryOp" ->
            IsNative(CurStmt.rv.op, LeftVal.v, RightVal.v, res)
      [] CurStmt.rv.k = "UnaryOp" ->
            /\ res.tag = "Int"
            /\ Representable(res.v)
            /\ IF CurStmt.rv.op = "Not"
               THEN res.v = 0 - LeftVal.v - 1
               ELSE Congruent(res.v, 0 - LeftVal.v)

AssignStoresInPlace ==
    AssignStep =>
        LET slot == SlotOf(CurFrame, CurStmt.lv)
        IN  /\ slot \in 1..Len(value_stack)
            /\ IsValueOfExpression(value_stack'[slot])
            /\ Len(value_stack') = Len(value_stack)
            /\ \A j \in 1..Len(value_stack) : j # slot => value_stack'[j] = value_stack[j]
            /\ call_stack' = call_stack

\* C18: an Assign stores the value of its expression in the slot its location
\* resolves to in the topmost frame, whatever kind of value the slot held,
\* and changes no other slot and no frame.
C18_AssignStores == [][AssignStoresInPlace]_vars

\* the callee has overwritten its first argument, a Bool, with the Int 5
C18_Witness ==
    /\ status = "running"
    /\ Len(host) = 2
    /\ host[1].mir = DefIds.outer /\ host[1].args = <<Bool(TRUE)>>
    /\ Top.mir = DefIds.inner /\ Top.block = START_BLOCK /\ Top.stmt = 5
    /\ value_stack[6] = Bool(TRUE)
    /\ value_stack[7] = IntVal(5)

\* ------------------------------------------------------------------------
\* C19
\* ------------------------------------------------------------------------

\* every step of a running invocation, the ones resolving a location and the
\* pop of the epilogue among them, finds a frame on the call stack
FrameWhenNeeded == Running => Len(call_stack) >= 1

\* neither "tried to pop stack frame, but there were none" nor "missing call
\* frame" has ended the process
NoUnderflowPanic == err \notin {"no_stack_frame", "missing_call_frame"}

\* every pop removes a frame that a push put there: the frame of the
\* activation that is returning
PopFollowsPush ==
    Len(call_stack') < Len(call_stack) =>
        /\ Len(call_stack) = Len(host)
        /\ Len(call_stack') = Len(call_stack) - 1
        /\ Last(call_stack).num_args = TopMir.num_args
        /\ Last(call_stack).num_vars = TopMir.num_vars
        /\ Last(call_stack).num_temps = TopMir.num_temps

\* C19: no invocation of call reaches the underflow failure of
\* pop_stack_frame: every pop is preceded by its matching push, and the call
\* stack is not empty when a pop or a location resolution takes place.
C19_NoFrameStackUnderflow ==
    [](FrameWhenNeeded /\ NoUnderflowPanic) /\ [][PopFollowsPush]_vars

\* the one frame of a top-level call has been popped without a panic
C19_Witness ==
    /\ status = "returned"
    /\ err = "none"
    /\ call_stack = <<>>
    /\ runs = <<[mir |-> DefIds.scenario_a, args |-> <<>>, out |-> IntVal(14)]>>

\* ------------------------------------------------------------------------
\* C20
\* ------------------------------------------------------------------------

\* an Assign of `l / r` or `l % r` on two Ints whose right one is Int(0)
DivisionByZeroStep ==
    /\ IntBinaryStep
    /\ CurStmt.rv.op \in {"Div", "Rem"}
    /\ RightVal = IntVal(0)

\* C20: Div or Rem of two Int operands with Int(0) on the right yields no
\* value: the invocation aborts, and the slot the Assign targets, like every
\* other slot, is not written.
C20_DivisionByZeroAborts ==
    [][DivisionByZeroStep =>
          /\ status' = "panicked"
          /\ err' = "division_by_zero"
          /\ value_stack' = value_stack
          /\ host' = host
          /\ ret_val' = ret_val]_vars

\* 5 % 0 has aborted the call, the return slot the Assign targeted still
\* Uninit
C20_Witness ==
    /\ status = "panicked"
    /\ err = "division_by_zero"
    /\ Len(host) = 1
    /\ Top.mir = BinId("Rem")
    /\ Top.stmt = 1
    /\ value_stack = <<Uninit, IntVal(5), IntVal(0)>>
====
